---- MODULE Spec2Model ----
(***************************************************************************)
(* Model of dashboard.py: the load / validate / clean step, the            *)
(* year-and-category filter and the derived views (summary metrics,        *)
(* monthly aggregate, Pareto ranking, Top-80% category set, category by    *)
(* payment breakdown, payment time-distribution).                          *)
(*                                                                         *)
(* Item values are integers (an amount in a fixed unit), so sums are       *)
(* exact; percentages that are compared and means are kept as exact        *)
(* fractions [num, den]; the rounded revenue share of the breakdown is     *)
(* computed in float64 arithmetic, as round(2) sees it.                    *)
(***************************************************************************)
EXTENDS Integers, Sequences, FiniteSets, TLC

\* Largest number of data rows of an input file.
MaxRows == 3

(***************************************************************************)
(* Values                                                                  *)
(***************************************************************************)

\* A missing string cell.  read_csv turns the tokens "", "NaN", "NA", ...
\* into a missing value, so no data string can collide with this marker.
NaN == "NaN"

\* A missing number (pd.to_numeric(..., errors='coerce')): numbers are <<n>>.
NaNf == << >>

\* A missing timestamp (pd.to_datetime(..., errors='coerce')).
NaT == [year |-> 0, month |-> 0]

AllYears == "All Years"

AllCategories == "All Categories"

\* _validate_and_prepare: required_cols, in the order of the list.
required_cols ==
  << "order_purchase_timestamp", "product_category_name_english", "order_id",
     "total_item_value", "review_score", "payment_type" >>

\* A column the file may carry that the dashboard does not need.
ExtraColumn == "customer_id"

Range(s) == { s[i] : i \in 1..Len(s) }

\* pd.to_datetime(token, errors='coerce'), kept to the calendar year and month
\* that the dashboard reads from it.
to_datetime(tok) ==
  CASE tok = "2017-01-15 10:00:00" -> [year |-> 2017, month |-> 1]
    [] tok = "2017-02-20 18:30:00" -> [year |-> 2017, month |-> 2]
    [] tok = "2018-01-05 09:15:00" -> [year |-> 2018, month |-> 1]
    [] OTHER -> NaT

\* pd.to_numeric(token, errors='coerce').
to_numeric(tok) ==
  CASE tok = "1" -> << 1 >>
    [] tok = "2" -> << 2 >>
    [] tok = "4" -> << 4 >>
    [] tok = "5" -> << 5 >>
    [] OTHER -> NaNf

\* str(year) of the year options, and int(selected_year) of the filter.
YearStr(y) ==
  CASE y = 2017 -> "2017"
    [] y = 2018 -> "2018"
    [] OTHER -> "0"

YearInt(s) ==
  CASE s = "2017" -> 2017
    [] s = "2018" -> 2018
    [] OTHER -> 0

\* Python's string order on the category names / the payment types that occur.
CategoryOrder == << "books", "garden", "toys" >>

PaymentOrder == << "boleto", "credit_card" >>

\* The elements of set S that occur in seq, in the order of seq.
SortedBy(seq, S) == SelectSeq(seq, LAMBDA x : x \in S)

(***************************************************************************)
(* Input files                                                             *)
(***************************************************************************)

DefaultRow ==
  [ order_purchase_timestamp |-> "2017-01-15 10:00:00",
    product_category_name_english |-> "books",
    order_id |-> "o1",
    total_item_value |-> "1",
    review_score |-> "5",
    payment_type |-> "credit_card" ]

Variant(col, tok) == [DefaultRow EXCEPT ![col] = tok]

\* The rows an input file is made of: the default line item and the line
\* items that differ from it in one field.
RowPool ==
  << DefaultRow,
     Variant("order_purchase_timestamp", "2017-02-20 18:30:00"),
     Variant("order_purchase_timestamp", "2018-01-05 09:15:00"),
     Variant("order_purchase_timestamp", "not-a-date"),
     Variant("product_category_name_english", "toys"),
     Variant("product_category_name_english", "garden"),
     Variant("product_category_name_english", NaN),
     Variant("order_id", "o2"),
     Variant("total_item_value", "2"),
     Variant("total_item_value", "4"),
     Variant("total_item_value", "abc"),
     Variant("review_score", "x"),
     Variant("payment_type", "boleto"),
     Variant("payment_type", NaN) >>

\* The index sequences of length n over the pool, in non-decreasing order:
\* one sequence per multiset of rows.
RECURSIVE Multisets(_)
Multisets(n) ==
  IF n = 0 THEN { << >> }
  ELSE { Append(s, i) : s \in Multisets(n - 1), i \in 1..Len(RowPool) }

NonDecreasing(s) == \A i \in 1..(Len(s) - 1) : s[i] <= s[i + 1]

RECURSIVE RowsOf(_)
RowsOf(s) == IF s = << >> THEN << >> ELSE << RowPool[Head(s)] >> \o RowsOf(Tail(s))

RowSeqs ==
  UNION { { RowsOf(s) : s \in { t \in Multisets(n) : NonDecreasing(t) } } :
          n \in 0..MaxRows }

\* data/processed_main_df.csv: absent, unreadable, or a table.
CsvFiles ==
  { [kind |-> "absent", columns |-> {}, rows |-> << >>],
    [kind |-> "unreadable", columns |-> {}, rows |-> << >>] }
  \cup { [kind |-> "table", columns |-> Range(required_cols), rows |-> rs] :
           rs \in RowSeqs }
  \cup { [kind |-> "table", columns |-> cols,
          rows |-> << [c \in cols |->
                         IF c = ExtraColumn THEN "c1" ELSE DefaultRow[c]] >>] :
           cols \in SUBSET (Range(required_cols) \cup {ExtraColumn}) }

(***************************************************************************)
(* Loading, validation, cleaning                                           *)
(***************************************************************************)

\* The value `None` of load_data / _validate_and_prepare.
None == [isNone |-> TRUE, columns |-> {}, rows |-> << >>]

DataFrame(cols, rows) == [isNone |-> FALSE, columns |-> cols, rows |-> rows]

\* Variant of missing: the message lists every required column.
missing_whole_list(columns) ==
  IF \E c \in Range(required_cols) : c \notin columns THEN required_cols ELSE << >>

\* missing = [c for c in required_cols if c not in df.columns]
missing(columns) == SelectSeq(required_cols, LAMBDA c : c \notin columns)

\* The st.error message of a failed validation.
SchemaError(cols) == [kind |-> "Kolom wajib hilang", columns |-> cols]

ReadError == [kind |-> "Gagal membaca data", columns |-> << >>]

\* The st.error box of the insights section, which closes the module-level
\* dashboard block.
ActionItems == [kind |-> "Action Items", columns |-> << >>]

\* The three coercions of _validate_and_prepare on one row.
Coerce(row) ==
  [row EXCEPT
     !["order_purchase_timestamp"] = to_datetime(@),
     !["total_item_value"] = to_numeric(@),
     !["review_score"] = to_numeric(@)]

\* Variant of dropna_timestamp: a row with a missing value in any of the three
\* coerced columns is dropped.
dropna_any_coerced(rows) ==
  SelectSeq(rows, LAMBDA r : /\ r.order_purchase_timestamp # NaT
                             /\ r.total_item_value # NaNf
                             /\ r.review_score # NaNf)

\* df.dropna(subset=['order_purchase_timestamp'])
dropna_timestamp(rows) ==
  SelectSeq(rows, LAMBDA r : r.order_purchase_timestamp # NaT)

\* _validate_and_prepare(df): [value, errors].
validate_and_prepare(columns, rows) ==
  IF missing(columns) # << >>
  THEN [value |-> None, errors |-> << SchemaError(missing(columns)) >>]
  ELSE [value |-> DataFrame(columns,
                    dropna_timestamp([i \in 1..Len(rows) |-> Coerce(rows[i])])),
        errors |-> << >>]

\* The body of load_data: [value, errors].
load_data_body(f) ==
  CASE f.kind = "absent" -> [value |-> None, errors |-> << >>]
    [] f.kind = "unreadable" -> [value |-> None, errors |-> << ReadError >>]
    [] OTHER -> validate_and_prepare(f.columns, f.rows)

\* Variant of ArgumentAfter: the coercions are assigned to the caller's frame.
ArgumentAfter_in_place(rows, coerced) == coerced

\* The rows of the frame the caller passed to _validate_and_prepare, once it
\* has returned: df = df.copy() rebinds the parameter, so the three column
\* assignments and dropna act on the copy.
ArgumentAfter(rows, coerced) == rows

\* No frame was read.
NoFrame == [bound |-> FALSE, columns |-> {}, rows |-> << >>]

\* The local df of load_data (the result of pd.read_csv) as it stands when
\* load_data returns.
csv_frame(f) ==
  CASE f.kind # "table" -> NoFrame
    [] missing(f.columns) # << >> ->
         [bound |-> TRUE, columns |-> f.columns, rows |-> f.rows]
    [] OTHER ->
         [bound |-> TRUE, columns |-> f.columns,
          rows |-> ArgumentAfter(f.rows,
                     [i \in 1..Len(f.rows) |-> Coerce(f.rows[i])])]

EmptyCache == [filled |-> FALSE, value |-> None, errors |-> << >>]

\* @st.cache_data load_data(): the body runs on the first call of the
\* process; later calls replay the stored value and the stored messages.
load_data(c, f) ==
  IF c.filled THEN c
  ELSE [filled |-> TRUE, value |-> load_data_body(f).value,
        errors |-> load_data_body(f).errors]

(***************************************************************************)
(* Column helpers                                                          *)
(***************************************************************************)

\* Series.sum(): missing numbers are skipped, the empty sum is 0.
RECURSIVE SumNum(_)
SumNum(nums) ==
  IF nums = << >> THEN 0
  ELSE (IF Head(nums) = NaNf THEN 0 ELSE Head(nums)[1]) + SumNum(Tail(nums))

Column(rows, col) == [i \in 1..Len(rows) |-> rows[i][col]]

\* Series.sum() of the item values of rows.
SumValue(rows) == SumNum(Column(rows, "total_item_value"))

\* Series.count(): the cells that are not missing.
CountNum(rows, col) == Len(SelectSeq(rows, LAMBDA r : r[col] # NaNf))

CountStr(rows, col) == Len(SelectSeq(rows, LAMBDA r : r[col] # NaN))

\* Series.nunique(): the distinct values, missing ones left out.
nunique(rows, col) == Cardinality({ rows[i][col] : i \in 1..Len(rows) } \ {NaN})

\* Series.unique(): the distinct values, a missing one included.
unique(rows, col) == { rows[i][col] : i \in 1..Len(rows) }

\* Series.mean(): sum and count of the cells that are not missing; a count of
\* 0 is the NaN mean.
mean(rows, col) == [num |-> SumNum(Column(rows, col)), den |-> CountNum(rows, col)]

\* sorted(...) of a set of integers.
RECURSIVE SortAsc(_)
SortAsc(S) ==
  IF S = {} THEN << >>
  ELSE LET m == CHOOSE x \in S : \A y \in S : x <= y
       IN << m >> \o SortAsc(S \ {m})

\* a == b of two string cells: a missing cell equals nothing.
EqStr(a, b) == a # NaN /\ b # NaN /\ a = b

(***************************************************************************)
(* Derived columns, options and the filter                                 *)
(***************************************************************************)

\* df['year'], df['month'], df['order_month_year'] added to every row.
WithDerived(rows) ==
  [i \in 1..Len(rows) |->
     rows[i] @@ [year |-> rows[i].order_purchase_timestamp.year,
                 month |-> rows[i].order_purchase_timestamp.month,
                 order_month_year |-> rows[i].order_purchase_timestamp]]

\* years = sorted(df['year'].unique())
years(df) == SortAsc({ df[i].year : i \in 1..Len(df) })

\* Module level: sorted(df[category].unique()) compares a missing category
\* (a float) with a category name (a str) and raises TypeError exactly when
\* both occur.
SortedRaises(df) ==
  LET u == unique(df, "product_category_name_english")
  IN NaN \in u /\ u # {NaN}

\* Module level: categories = sorted(df[category].unique()); a column of
\* missing values only is the one-element list [nan].
categories(df) ==
  LET u == unique(df, "product_category_name_english")
  IN IF u = {NaN} THEN << NaN >> ELSE SortedBy(CategoryOrder, u)

\* The category names that occur, sorted, without the missing value: the
\* option list of render_dashboard, sorted(df[category].dropna().unique()),
\* and the keys of a groupby on the category column.
categories_dropna(df) ==
  SortedBy(CategoryOrder, unique(df, "product_category_name_english") \ {NaN})

year_options(df) ==
  << AllYears >> \o [i \in 1..Len(years(df)) |-> YearStr(years(df)[i])]

\* Variant of Filter: the category test is applied whatever the selection.
Filter_no_all(df, selected_year, selected_category) ==
  LET byYear ==
        IF selected_year # AllYears
        THEN SelectSeq(df, LAMBDA r : r.year = YearInt(selected_year))
        ELSE df
  IN SelectSeq(byYear,
       LAMBDA r : EqStr(r.product_category_name_english, selected_category))

\* The filter block: filtered_df = df.copy() narrowed by year and category.
Filter(df, selected_year, selected_category) ==
  LET byYear ==
        IF selected_year # AllYears
        THEN SelectSeq(df, LAMBDA r : r.year = YearInt(selected_year))
        ELSE df
  IN IF selected_category # AllCategories
     THEN SelectSeq(byYear,
            LAMBDA r : EqStr(r.product_category_name_english, selected_category))
     ELSE byYear

(***************************************************************************)
(* Summary metrics and the monthly aggregate                               *)
(***************************************************************************)

Metrics(filtered_df) ==
  [ total_orders |-> nunique(filtered_df, "order_id"),
    total_revenue |-> SumValue(filtered_df),
    avg_order_value |-> mean(filtered_df, "total_item_value"),
    avg_satisfaction |-> mean(filtered_df, "review_score") ]

\* The (year, month) keys of a groupby, ascending by year and then month.
MonthKeys(rows) ==
  LET sorted == SortAsc({ rows[i].year * 12 + (rows[i].month - 1) : i \in 1..Len(rows) })
  IN [i \in 1..Len(sorted) |->
        [year |-> sorted[i] \div 12, month |-> (sorted[i] % 12) + 1]]

\* Variant of InMonth: the group is taken by month alone.
InMonth_any_year(rows, k) == SelectSeq(rows, LAMBDA r : r.month = k.month)

InMonth(rows, k) == SelectSeq(rows, LAMBDA r : r.year = k.year /\ r.month = k.month)

\* 'order_id': 'count' of one group.
OrderCount(group) == CountStr(group, "order_id")

\* filtered_df.groupby(['year','month']).agg({'order_id': 'count',
\* 'total_item_value': 'sum'}).reset_index()
monthly_sales(filtered_df) ==
  LET keys == MonthKeys(filtered_df)
  IN [i \in 1..Len(keys) |->
        LET group == InMonth(filtered_df, keys[i])
        IN [ year |-> keys[i].year,
             month |-> keys[i].month,
             order_id |-> OrderCount(group),
             total_item_value |-> SumValue(group) ]]

(***************************************************************************)
(* Pareto ranking and Top-80% category set                                 *)
(***************************************************************************)

\* .head(10) of the Pareto ranking.
TopN == 10

\* The cumulative-percentage threshold of the Top-80% set.
Threshold == 80

InCategory(rows, c) ==
  SelectSeq(rows, LAMBDA r : EqStr(r.product_category_name_english, c))

\* df.groupby(category)['total_item_value'].sum(): one entry per category
\* name that occurs (rows without a category belong to no group), in the
\* sorted order of the names.
GroupRevenue(df) ==
  LET keys == categories_dropna(df)
  IN [i \in 1..Len(keys) |->
        [category |-> keys[i], revenue |-> SumValue(InCategory(df, keys[i]))]]

\* The position of the first largest revenue of a non-empty sequence.
FirstMax(seq) ==
  CHOOSE i \in 1..Len(seq) :
    /\ \A j \in 1..Len(seq) : seq[j].revenue <= seq[i].revenue
    /\ \A j \in 1..(i - 1) : seq[j].revenue < seq[i].revenue

Remove(seq, i) == SubSeq(seq, 1, i - 1) \o SubSeq(seq, i + 1, Len(seq))

\* .sort_values(ascending=False): descending by revenue, equal revenues in
\* the order of the grouping.
RECURSIVE sort_values_desc(_)
sort_values_desc(seq) ==
  IF seq = << >> THEN << >>
  ELSE LET m == FirstMax(seq)
       IN << seq[m] >> \o sort_values_desc(Remove(seq, m))

head(seq, n) == SubSeq(seq, 1, IF Len(seq) < n THEN Len(seq) ELSE n)

\* .cumsum() of the revenues of a ranking.
RECURSIVE cumsum(_)
cumsum(ranking) ==
  IF ranking = << >> THEN << >>
  ELSE LET init == cumsum(SubSeq(ranking, 1, Len(ranking) - 1))
           last == ranking[Len(ranking)].revenue
       IN Append(init, IF init = << >> THEN last ELSE init[Len(init)] + last)

\* cumsum / total * 100 as the fraction num / den (den = 0: inf or NaN).
Percent(cum, total) == [num |-> cum * 100, den |-> total]

\* The float comparison pct <= bound: false for NaN (0/0) and for +inf.
PctLE(pct, bound) ==
  IF pct.den > 0 THEN pct.num <= bound * pct.den
  ELSE IF pct.den < 0 THEN pct.num >= bound * pct.den
  ELSE pct.num < 0

\* category_revenue of the Pareto block.
category_revenue(df) == head(sort_values_desc(GroupRevenue(df)), TopN)

\* total_revenue_all = df['total_item_value'].sum()
total_revenue_all(df) == SumValue(df)

\* cumulative_pct of the Pareto block.
pareto_cumulative_pct(df) ==
  LET sums == cumsum(category_revenue(df))
      total == total_revenue_all(df)
  IN [i \in 1..Len(sums) |-> Percent(sums[i], total)]

\* top_categories of the treemap block: the full ranking.
top_categories(df) == sort_values_desc(GroupRevenue(df))

\* top_categories.sum()
top_categories_sum(df) ==
  LET ranking == top_categories(df)
  IN SumNum([i \in 1..Len(ranking) |-> << ranking[i].revenue >>])

\* cumulative_pct of the treemap block.
top_cumulative_pct(df) ==
  LET sums == cumsum(top_categories(df))
      total == top_categories_sum(df)
  IN [i \in 1..Len(sums) |-> Percent(sums[i], total)]

\* Variant of Top80Mask: the comparison is strict.
Top80Mask_strict(pcts, i) ==
  PctLE(pcts[i], Threshold) /\ pcts[i].num # Threshold * pcts[i].den

\* Variant of Top80Mask: the comparison is the other way round.
Top80Mask_reversed(pcts, i) ==
  IF pcts[i].den = 0 THEN pcts[i].num > 0
  ELSE ~PctLE(pcts[i], Threshold) \/ pcts[i].num = Threshold * pcts[i].den

\* The positions kept by the mask cumulative_pct <= 80.
Top80Mask(pcts, i) == PctLE(pcts[i], Threshold)

\* top_80_categories = cumulative_pct[cumulative_pct <= 80].index.tolist()
top_80_categories(df) ==
  LET ranking == top_categories(df)
      pcts == top_cumulative_pct(df)
      kept == SelectSeq([i \in 1..Len(ranking) |-> i],
                        LAMBDA i : Top80Mask(pcts, i))
  IN [k \in 1..Len(kept) |-> ranking[kept[k]].category]

(***************************************************************************)
(* Category by payment breakdown, payment time-distribution                *)
(***************************************************************************)

\* float64 arithmetic on positive numbers.  A double is [a, b, c, e]: its
\* 53-bit significand is a * 2^36 + b * 2^18 + c, with a of 17 bits (the
\* first one set) and b, c of 18 bits, and e is the weight 2^e of the last bit.

Limb == 2 ^ 18

TopLimb == 2 ^ 17

\* Round to nearest, ties to even, of a significand that carries `drop`
\* extra low bits (1 <= drop <= 9) and is followed by more non-zero bits when
\* `sticky`: a is below 2^(17 + drop), b and c are below 2^18.
RoundToDouble(a, b, c, e, drop, sticky) ==
  LET d == 2 ^ drop
      keep == Limb \div d
      a1 == a \div d
      b1 == (a % d) * keep + b \div d
      c1 == (b % d) * keep + c \div d
      guard == (c % d) \div (d \div 2)
      rest == sticky \/ (c % (d \div 2)) # 0
      up == guard = 1 /\ (rest \/ c1 % 2 = 1)
      c2 == IF up THEN c1 + 1 ELSE c1
      b2 == b1 + c2 \div Limb
      a2 == a1 + b2 \div Limb
  IN IF a2 = TopLimb
     THEN [a |-> TopLimb \div 2, b |-> 0, c |-> 0, e |-> e + drop + 1]
     ELSE [a |-> a2, b |-> b2 % Limb, c |-> c2 % Limb, e |-> e + drop]

\* The quotient bits a long division yields at a step.
Chunk == 2 ^ 9

\* The double num / den for 0 < num <= den < 2^21: the quotient is scaled to
\* 1.f, and long division yields the 54 bits after the leading one.
FloatDiv(num, den) ==
  LET s == CHOOSE k \in 0..21 : num * 2 ^ k >= den /\ num * 2 ^ k < 2 * den
      r0 == num * 2 ^ s - den
      q1 == (r0 * Chunk) \div den
      r1 == (r0 * Chunk) % den
      q2 == (r1 * Chunk) \div den
      r2 == (r1 * Chunk) % den
      q3 == (r2 * Chunk) \div den
      r3 == (r2 * Chunk) % den
      q4 == (r3 * Chunk) \div den
      r4 == (r3 * Chunk) % den
      q5 == (r4 * Chunk) \div den
      r5 == (r4 * Chunk) % den
      q6 == (r5 * Chunk) \div den
      r6 == (r5 * Chunk) % den
  IN RoundToDouble(Chunk * Chunk + q1 * Chunk + q2, q3 * Chunk + q4,
                   q5 * Chunk + q6, (0 - s) - 54, 2, r6 # 0)

\* The double x * c for a natural c with 64 <= c < 128.
FloatMul(x, c) ==
  LET lo == x.c * c
      mid == x.b * c + lo \div Limb
      hi == x.a * c + mid \div Limb
  IN RoundToDouble(hi, mid % Limb, lo % Limb, x.e,
                   IF hi >= TopLimb * 64 THEN 7 ELSE 6, FALSE)

\* np.rint of a double below 2^17: the nearest integer, ties to even.
Rint(x) ==
  LET n == 53 + x.e
  IN IF n < 0 THEN 0
     ELSE LET w == 2 ^ (17 - n)
              q == x.a \div w
              guard == IF n = 17 THEN x.b \div (Limb \div 2)
                       ELSE (x.a % w) \div (w \div 2)
              rest == IF n = 17 THEN (x.b % (Limb \div 2)) # 0 \/ x.c # 0
                      ELSE (x.a % (w \div 2)) # 0 \/ x.b # 0 \/ x.c # 0
          IN IF guard = 1 /\ (rest \/ q % 2 = 1) THEN q + 1 ELSE q

\* (num / den * 100).round(2) in hundredths, for 0 <= num <= den: the float64
\* quotient, its product with 100, and Series.round, which multiplies by
\* 10**2, rounds to the nearest integer and divides by 10**2; NaN for 0 / 0.
RoundPct(num, den) ==
  IF den = 0 THEN NaNf
  ELSE IF num = 0 THEN << 0 >>
  ELSE << Rint(FloatMul(FloatMul(FloatDiv(num, den), 100), 100)) >>

\* The (category, payment type) keys in the sorted order of a groupby.
GroupKeys ==
  [k \in 1..(Len(CategoryOrder) * Len(PaymentOrder)) |->
     [ Category |-> CategoryOrder[((k - 1) \div Len(PaymentOrder)) + 1],
       Payment_Method |-> PaymentOrder[((k - 1) % Len(PaymentOrder)) + 1] ]]

\* The rows of one (category, payment type) group; rows without a payment
\* type or without a category belong to no group.
Cell(rows, g) ==
  SelectSeq(rows, LAMBDA r : r.product_category_name_english = g.Category
                               /\ r.payment_type = g.Payment_Method)

\* treemap_df = df[df[category].isin(top_80_categories)]
treemap_df(df, top80) ==
  SelectSeq(df, LAMBDA r : r.product_category_name_english \in Range(top80))

\* treemap_data: the rows of the Top-80% categories grouped by (category,
\* payment type), with the share of each group in the revenue of all groups.
treemap_data(df) ==
  LET rows == treemap_df(df, top_80_categories(df))
      groups == SelectSeq(GroupKeys, LAMBDA g : Cell(rows, g) # << >>)
      revenue == [g \in 1..Len(groups) |-> SumValue(Cell(rows, groups[g]))]
      total == SumNum([g \in 1..Len(groups) |-> << revenue[g] >>])
  IN [g \in 1..Len(groups) |->
        [ Category |-> groups[g].Category,
          Payment_Method |-> groups[g].Payment_Method,
          Revenue |-> revenue[g],
          Order_Count |-> OrderCount(Cell(rows, groups[g])),
          Revenue_Pct |-> RoundPct(revenue[g], total) ]]

\* str(Period('M')): "YYYY-MM".
PeriodStr(p) ==
  YearStr(p.year) \o "-" \o
    (CASE p.month = 1 -> "01" [] p.month = 2 -> "02" [] OTHER -> "00")

\* The rows a crosstab counts: both keys present.
CrosstabRows(df) == SelectSeq(df, LAMBDA r : r.payment_type # NaN)

\* Variant of Normalizer: normalize='all', the number of all counted rows.
Normalizer_all(rows, counts) == Len(rows)

\* The total by which normalize='index' divides a row of the table: the sum
\* of the counts of that row.
Normalizer(rows, counts) == SumNum([j \in 1..Len(counts) |-> << counts[j] >>])

\* pd.crosstab(df['order_month_year'].astype(str), df['payment_type'],
\* normalize='index') * 100: index, columns and one row of shares per index.
payment_pivot(df) ==
  LET rows == CrosstabRows(df)
      index == MonthKeys(rows)
      columns == SortedBy(PaymentOrder, unique(rows, "payment_type"))
      Counts(k) ==
        [j \in 1..Len(columns) |->
           Len(SelectSeq(InMonth(rows, k), LAMBDA r : r.payment_type = columns[j]))]
  IN [ index |-> [i \in 1..Len(index) |-> PeriodStr(index[i])],
       columns |-> columns,
       values |-> [i \in 1..Len(index) |->
                     LET counts == Counts(index[i])
                         total == Normalizer(rows, counts)
                     IN [j \in 1..Len(columns) |-> Percent(counts[j], total)]] ]

(***************************************************************************)
(* State                                                                   *)
(***************************************************************************)

VARIABLES
  file,       \* data/processed_main_df.csv
  cache,      \* the st.cache_data entry of load_data
  phase,      \* "start", or how the last script run ended
  errors,     \* the st.error messages of the last run
  widgets,    \* the two select boxes as last displayed, and their values
  views,      \* what the last run computed
  first,      \* history: what the first completed render of the process computed
  moved,      \* history: some completed render had a selection other than all/all
  before,     \* history: the ranking and Top-80% set before revenue was added
  csv_df,     \* history: the frame read_csv gave load_data, as load_data left it
  passed_df   \* the frame a caller of render_dashboard holds and passes to it

vars ==
  << file, cache, phase, errors, widgets, views, first, moved, before, csv_df,
     passed_df >>

NoWidgets ==
  [shown |-> FALSE, years |-> << >>, categories |-> << >>,
   selected_year |-> AllYears, selected_category |-> AllCategories]

NoViews == [computed |-> FALSE]

NoBefore == [set |-> FALSE, category |-> NaN, ranking |-> << >>, top80 |-> << >>]

\* Variant of GlobalSource: the blocks read the filtered frame.
GlobalSource_filtered(df, filtered_df) == filtered_df

\* The frame the Pareto, treemap and heatmap blocks read: df, whatever the
\* selection.
GlobalSource(df, filtered_df) == df

\* Everything one render computes from df and the selection.
Views(df, selected_year, selected_category) ==
  LET filtered_df == Filter(df, selected_year, selected_category)
      all == GlobalSource(df, filtered_df)
  IN [ computed |-> TRUE,
       filtered_df |-> filtered_df,
       metrics |-> Metrics(filtered_df),
       monthly_sales |-> monthly_sales(filtered_df),
       category_revenue |-> category_revenue(all),
       cumulative_pct |-> pareto_cumulative_pct(all),
       top_categories |-> top_categories(all),
       top_cumulative_pct |-> top_cumulative_pct(all),
       top_80_categories |-> top_80_categories(all),
       treemap_data |-> treemap_data(all),
       payment_pivot |-> payment_pivot(all) ]

\* Variant of StoredAfterRun: the run filters the cached frame in place.
StoredAfterRun_in_place(stored, df, filtered_df) == filtered_df

\* What the cache holds after a run that added columns to, and filtered, the
\* frame load_data() returned: st.cache_data hands every caller its own copy,
\* so the stored frame is left as it was.
StoredAfterRun(stored, df, filtered_df) == stored

Init ==
  /\ file \in CsvFiles
  /\ cache = EmptyCache
  /\ phase = "start"
  /\ errors = << >>
  /\ widgets = NoWidgets
  /\ views = NoViews
  /\ first = NoViews
  /\ moved = FALSE
  /\ before = NoBefore
  /\ csv_df = NoFrame
  /\ passed_df = NoFrame

\* A run that displays no dashboard: the setup instructions, or a traceback.
NoRender(c, how) ==
  /\ phase' = how
  /\ cache' = c
  /\ errors' = c.errors
  /\ widgets' = NoWidgets
  /\ views' = NoViews
  /\ UNCHANGED << first, moved >>

\* The module-level dashboard block with the frame load_data() returned.
\* The selection is the one the select boxes hold: the first option of each
\* on a run that follows no displayed widgets.  The sort of the category
\* options raises before anything is displayed.
Render(c, selected_year, selected_category) ==
  LET df == WithDerived(c.value.rows)
      v == Views(df, selected_year, selected_category)
  IN IF SortedRaises(df)
     THEN /\ selected_year = AllYears /\ selected_category = AllCategories
          /\ NoRender(c, "crashed")
     ELSE /\ selected_year \in Range(year_options(df))
          /\ selected_category \in {AllCategories} \cup Range(categories(df))
          /\ widgets.shown = FALSE =>
               selected_year = AllYears /\ selected_category = AllCategories
          /\ phase' = "rendered"
          /\ errors' = c.errors \o << ActionItems >>
          /\ cache' = [c EXCEPT !.value.rows = StoredAfterRun(@, df, v.filtered_df)]
          /\ widgets' = [shown |-> TRUE, years |-> year_options(df),
                         categories |-> << AllCategories >> \o categories(df),
                         selected_year |-> selected_year,
                         selected_category |-> selected_category]
          /\ views' = v
          /\ first' = IF first.computed THEN first ELSE v
          /\ moved' = (moved \/ selected_year # AllYears
                             \/ selected_category # AllCategories)

\* The script from top to bottom: load_data(), then the dashboard block or
\* the setup instructions.
RunScript(selected_year, selected_category) ==
  LET c == load_data(cache, file)
  IN /\ csv_df' = IF cache.filled THEN csv_df ELSE csv_frame(file)
     /\ UNCHANGED << file, before, passed_df >>
     /\ IF c.value.isNone
        THEN /\ selected_year = AllYears /\ selected_category = AllCategories
             /\ NoRender(c, "setup")
        ELSE Render(c, selected_year, selected_category)

YearChoices == {AllYears, "2017", "2018"}

CategoryChoices == {AllCategories, NaN} \cup Range(CategoryOrder)

Next == \E y \in YearChoices, c \in CategoryChoices : RunScript(y, c)

Spec == Init /\ [][Next]_vars

(***************************************************************************)
(* Adding revenue to a category and recomputing                            *)
(***************************************************************************)

\* The frame a fresh process computes from a file that passes validation.
FreshFrame(f) == WithDerived(load_data_body(f).value.rows)

\* The file is exported again with changed rows and a fresh process runs the
\* script on it with the select boxes at their first option.
Recompute(rows, c) ==
  LET f == [file EXCEPT !.rows = rows]
  IN /\ file' = f
     /\ before' = [set |-> TRUE, category |-> c,
                   ranking |-> top_categories(FreshFrame(file)),
                   top80 |-> top_80_categories(FreshFrame(file))]
     /\ csv_df' = csv_frame(f)
     /\ UNCHANGED passed_df
     /\ Render(load_data(EmptyCache, f), AllYears, AllCategories)

Perturbable ==
  /\ phase = "start"
  /\ file.kind = "table"
  /\ file.columns = Range(required_cols)

\* One more line item of category c with a positive value is exported.
AddLineItem(c, tok) ==
  /\ Perturbable
  /\ Len(file.rows) < MaxRows
  /\ to_numeric(tok) # NaNf
  /\ Recompute(Append(file.rows,
                 [DefaultRow EXCEPT !.product_category_name_english = c,
                                    !.total_item_value = tok]), c)

\* The value of line item i is exported larger than it was.
RaiseValue(i, tok) ==
  /\ Perturbable
  /\ i \in 1..Len(file.rows)
  /\ to_datetime(file.rows[i].order_purchase_timestamp) # NaT
  /\ file.rows[i].product_category_name_english # NaN
  /\ to_numeric(tok) # NaNf
  /\ SumNum(<< to_numeric(file.rows[i].total_item_value) >>) < to_numeric(tok)[1]
  /\ Recompute([file.rows EXCEPT ![i].total_item_value = tok],
               file.rows[i].product_category_name_english)

ValueTokens == {"1", "2", "4", "5"}

NextMono ==
  \/ \E c \in Range(CategoryOrder), tok \in ValueTokens : AddLineItem(c, tok)
  \/ \E i \in 1..MaxRows, tok \in ValueTokens : RaiseValue(i, tok)

SpecMono == Init /\ [][NextMono]_vars

(***************************************************************************)
(* The function render_dashboard                                           *)
(***************************************************************************)

\* The script never calls render_dashboard; a program that imports the module
\* can.  The import runs the script, here without a data file, so that it
\* ends in the setup instructions, and the importer then calls the function
\* with a frame of its own.

\* The frames passed: what _validate_and_prepare returns for a table with
\* the required columns.
PassedFrames ==
  { [bound |-> TRUE, columns |-> Range(required_cols),
     rows |-> validate_and_prepare(Range(required_cols), rs).value.rows] :
      rs \in RowSeqs }

InitFn ==
  /\ file \in { f \in CsvFiles : f.kind = "absent" }
  /\ cache = EmptyCache
  /\ phase = "start"
  /\ errors = << >>
  /\ widgets = NoWidgets
  /\ views = NoViews
  /\ first = NoViews
  /\ moved = FALSE
  /\ before = NoBefore
  /\ csv_df = NoFrame
  /\ passed_df \in PassedFrames

\* import of the module: the script runs once.
Import == phase = "start" /\ RunScript(AllYears, AllCategories)

\* The columns the dashboard derives from the timestamp.
DerivedColumns == {"year", "month", "order_month_year"}

\* render_dashboard(df): the copy of the dashboard block that builds the
\* category options without the missing value and ends after the heatmap.
\* The three derived columns are assigned on the frame that was passed, which
\* the caller holds with them afterwards.
RenderDashboard(selected_year, selected_category) ==
  LET df == WithDerived(passed_df.rows)
      v == Views(df, selected_year, selected_category)
  IN /\ phase \in {"setup", "rendered"}
     /\ selected_year \in Range(year_options(df))
     /\ selected_category \in {AllCategories} \cup Range(categories_dropna(df))
     /\ widgets.shown = FALSE =>
          selected_year = AllYears /\ selected_category = AllCategories
     /\ phase' = "rendered"
     /\ errors' = << >>
     /\ widgets' = [shown |-> TRUE, years |-> year_options(df),
                    categories |-> << AllCategories >> \o categories_dropna(df),
                    selected_year |-> selected_year,
                    selected_category |-> selected_category]
     /\ views' = v
     /\ first' = IF first.computed THEN first ELSE v
     /\ moved' = (moved \/ selected_year # AllYears
                        \/ selected_category # AllCategories)
     /\ passed_df' = [passed_df EXCEPT !.columns = @ \cup DerivedColumns,
                                       !.rows = df]
     /\ UNCHANGED << file, cache, before, csv_df >>

NextFn ==
  \/ Import
  \/ \E y \in YearChoices, c \in CategoryChoices : RenderDashboard(y, c)

SpecFn == InitFn /\ [][NextFn]_vars

(***************************************************************************)
(* Properties                                                              *)
(***************************************************************************)

Rendered == phase = "rendered"

AllAll ==
  widgets.selected_year = AllYears /\ widgets.selected_category = AllCategories

\* The required columns the file lacks.
Lacking == Range(required_cols) \ file.columns

\* C1: a run on a file that lacks required columns shows one schema error
\* that names exactly the lacking columns, each once, load_data returns no
\* dataset, and the run ends in the setup instructions without widgets,
\* filter or views.
C1_SchemaErrorNamesMissing ==
  (phase # "start" /\ file.kind = "table" /\ Lacking # {}) =>
    /\ Len(errors) = 1
    /\ errors[1].kind = "Kolom wajib hilang"
    /\ Range(errors[1].columns) = Lacking
    /\ Len(errors[1].columns) = Cardinality(Lacking)
    /\ cache.filled /\ cache.value = None
    /\ phase = "setup"
    /\ views = NoViews
    /\ widgets = NoWidgets

\* A run on a file that lacks the payment-method column and nothing else,
\* beside a column the dashboard does not need.
C1_Witness ==
  /\ phase = "setup"
  /\ Lacking = {"payment_type"}
  /\ ExtraColumn \in file.columns
  /\ errors = << SchemaError(<< "payment_type" >>) >>

\* C2: after a render with the selection All Years / All Categories the
\* filtered set has the rows of the cleaned base dataset, in the same
\* number and order, each with the cells it has in the base dataset.
C2_AllAllIsIdentity ==
  (Rendered /\ AllAll) =>
    /\ Len(views.filtered_df) = Len(cache.value.rows)
    /\ \A i \in 1..Len(cache.value.rows) :
         \A c \in cache.value.columns :
           views.filtered_df[i][c] = cache.value.rows[i][c]

\* An all/all render of a base dataset with a row without category, a row
\* with a category and a repeated row.
C2_Witness ==
  /\ Rendered /\ AllAll
  /\ Len(file.rows) = 3
  /\ Len(views.filtered_df) = 2
  /\ views.filtered_df[1] = views.filtered_df[2]
  /\ views.filtered_df[1].product_category_name_english = NaN

\* C3: the item-value sums of the monthly aggregate add up to the total
\* item value of the filtered set, and the line-item counts of the groups
\* add up to the number of filtered rows.
C3_MonthlyConservation ==
  Rendered =>
    /\ SumNum([i \in 1..Len(views.monthly_sales) |->
                 << views.monthly_sales[i].total_item_value >>])
         = views.metrics.total_revenue
    /\ views.metrics.total_revenue
         = SumNum([i \in 1..Len(views.filtered_df) |->
                     views.filtered_df[i].total_item_value])
    /\ SumNum([i \in 1..Len(views.monthly_sales) |->
                 << views.monthly_sales[i].order_id >>])
         = Len(views.filtered_df)

\* A render under a year selection whose filtered set spans two months and
\* holds a row without item value, while the base dataset has another year.
C3_Witness ==
  /\ Rendered
  /\ widgets.selected_year = "2017"
  /\ Len(views.monthly_sales) = 2
  /\ Len(views.filtered_df) < Len(cache.value.rows)
  /\ \E i \in 1..Len(views.filtered_df) :
       views.filtered_df[i].total_item_value = NaNf
  /\ views.metrics.total_revenue > 0

\* C4: every row of the payment time-distribution has a positive total,
\* its shares add up to 100%, and its month-period is the month of some
\* record of the dataset that has a payment type; no month-period occurs
\* twice.
C4_PaymentRowsSumTo100 ==
  Rendered =>
    LET pv == views.payment_pivot
    IN /\ Len(pv.values) = Len(pv.index)
       /\ \A i \in 1..Len(pv.index) :
            /\ Len(pv.values[i]) = Len(pv.columns)
            /\ \A j \in 1..Len(pv.columns) :
                 pv.values[i][j].den > 0 /\ pv.values[i][j].den = pv.values[i][1].den
            /\ SumNum([j \in 1..Len(pv.columns) |-> << pv.values[i][j].num >>])
                 = 100 * pv.values[i][1].den
            /\ \E k \in 1..Len(cache.value.rows) :
                 /\ cache.value.rows[k].payment_type # NaN
                 /\ PeriodStr(cache.value.rows[k].order_purchase_timestamp) = pv.index[i]
            /\ \A i2 \in 1..Len(pv.index) : pv.index[i2] = pv.index[i] => i2 = i

\* A distribution with two month-periods and two payment types, over a
\* dataset that also has a record without payment type.
C4_Witness ==
  /\ Rendered
  /\ Len(views.payment_pivot.index) = 2
  /\ Len(views.payment_pivot.columns) = 2
  /\ \E k \in 1..Len(cache.value.rows) : cache.value.rows[k].payment_type = NaN

\* The running revenue of the first i categories of the full ranking.
RunningRevenue(ranking, i) == SumNum([j \in 1..i |-> << ranking[j].revenue >>])

\* C5: the full ranking lists every category of the base dataset once, by
\* descending revenue; the Top-80% set is a prefix of it; and a position is
\* in the set exactly when the total is positive and its running revenue is
\* at most 80% of the total.
C5_Top80IsPrefix ==
  Rendered =>
    LET ranking == views.top_categories
        top80 == views.top_80_categories
        total == RunningRevenue(ranking, Len(ranking))
    IN /\ { ranking[i].category : i \in 1..Len(ranking) }
            = { cache.value.rows[k].product_category_name_english :
                  k \in 1..Len(cache.value.rows) } \ {NaN}
       /\ \A i, j \in 1..Len(ranking) :
            /\ i < j => ranking[i].revenue >= ranking[j].revenue
            /\ ranking[i].category = ranking[j].category => i = j
       /\ Len(top80) <= Len(ranking)
       /\ \A i \in 1..Len(top80) : top80[i] = ranking[i].category
       /\ \A i \in 1..Len(ranking) :
            (i <= Len(top80)) <=>
              (total > 0 /\ 100 * RunningRevenue(ranking, i) <= Threshold * total)

\* The top-ranked category holds exactly 80% of the revenue: it is in the
\* set, and the next category, which reaches 100%, is not.
C5_Witness ==
  /\ Rendered
  /\ Len(views.top_categories) = 2
  /\ 100 * views.top_categories[1].revenue
       = Threshold * (views.top_categories[1].revenue + views.top_categories[2].revenue)
  /\ views.top_80_categories = << views.top_categories[1].category >>

\* The position of category c in a ranking that lists it.
RankOf(ranking, c) == CHOOSE i \in 1..Len(ranking) : ranking[i].category = c

\* C6 as stated: after revenue is added to a category of the Top-80% set
\* and a run has recomputed the views, every category that was in the set and
\* ranked above it before is still in the set.
C6_Original ==
  (Rendered /\ before.set /\ before.category \in Range(before.top80)) =>
    \A h \in Range(before.top80) :
      RankOf(before.ranking, h) < RankOf(before.ranking, before.category)
        => h \in Range(views.top_80_categories)

\* C6 amended: after revenue is added to a category of the Top-80% set and
\* a run has recomputed the views, every category that was in the set, ranked
\* above it before and is still ranked above it is still in the set.
C6_MonotonicWhileRankKept ==
  (Rendered /\ before.set /\ before.category \in Range(before.top80)) =>
    \A h \in Range(before.top80) :
      ( /\ RankOf(before.ranking, h) < RankOf(before.ranking, before.category)
        /\ RankOf(views.top_categories, h)
             < RankOf(views.top_categories, before.category) )
        => h \in Range(views.top_80_categories)

\* Revenue was added to the second category of a set of two, the first
\* category kept its rank, and the recomputed set still holds both.
C6_Witness ==
  /\ Rendered
  /\ before.set
  /\ Len(before.top80) = 2
  /\ before.category = before.top80[2]
  /\ views.top_categories[1].category = before.top80[1]
  /\ views.top_categories[2].category = before.category
  /\ views.top_categories[2].revenue > before.ranking[2].revenue
  /\ views.top_80_categories = before.top80

\* C7: what a completed render shows is what a fresh process computes from
\* the file and the current selection, whatever was selected before; and a
\* render under all/all shows what the first render of the process showed.
C7_ViewsDependOnSelectionOnly ==
  Rendered =>
    /\ views = Views(FreshFrame(file), widgets.selected_year,
                     widgets.selected_category)
    /\ AllAll => views = first

\* A render under all/all that follows a render under another selection,
\* over a base dataset that the other selection narrows.
C7_Witness ==
  /\ Rendered /\ AllAll /\ moved
  /\ Len(views.filtered_df) = 3
  /\ Len(views.monthly_sales) = 3
  /\ Len(widgets.categories) = 3

\* C8: the order count of every monthly group is the number of distinct
\* order identifiers among the filtered rows of that month.
C8_DistinctOrderCount ==
  Rendered =>
    \A i \in 1..Len(views.monthly_sales) :
      views.monthly_sales[i].order_id
        = Cardinality({ views.filtered_df[k].order_id :
                          k \in { n \in 1..Len(views.filtered_df) :
                                    /\ views.filtered_df[n].year = views.monthly_sales[i].year
                                    /\ views.filtered_df[n].month = views.monthly_sales[i].month } })

SamePct(a, b) == a.num * b.den = b.num * a.den /\ (a.den = 0 <=> b.den = 0)

\* C9: the Pareto ranking is the first 10 entries of the full ranking, and
\* at every position of it the Pareto cumulative percentage equals the
\* cumulative percentage of the Top-80% computation, also over a frame in
\* which some records have no category.
C9_ParetoAgreesWithTop80 ==
  Rendered =>
    /\ views.category_revenue = head(views.top_categories, TopN)
    /\ Len(views.cumulative_pct) = Len(views.category_revenue)
    /\ \A i \in 1..Len(views.cumulative_pct) :
         SamePct(views.cumulative_pct[i], views.top_cumulative_pct[i])

\* C10: the category ranking, its cumulative series, the Top-80% set, the
\* category-by-payment breakdown and the payment time-distribution of every
\* completed render are those of the first render, which ran under all/all.
C10_GlobalViewsIgnoreSelection ==
  Rendered =>
    /\ first.computed
    /\ Len(first.filtered_df) = Len(cache.value.rows)
    /\ views.category_revenue = first.category_revenue
    /\ views.cumulative_pct = first.cumulative_pct
    /\ views.top_categories = first.top_categories
    /\ views.top_cumulative_pct = first.top_cumulative_pct
    /\ views.top_80_categories = first.top_80_categories
    /\ views.treemap_data = first.treemap_data
    /\ views.payment_pivot = first.payment_pivot

\* A render under a year and a category selection that changes the
\* filtered set, the metrics and the monthly aggregate, while the breakdown
\* and the distribution are not empty.
C10_Witness ==
  /\ Rendered
  /\ widgets.selected_year # AllYears
  /\ widgets.selected_category # AllCategories
  /\ views.filtered_df # first.filtered_df
  /\ views.filtered_df # << >>
  /\ views.metrics # first.metrics
  /\ views.monthly_sales # first.monthly_sales
  /\ views.treemap_data # << >>
  /\ Len(views.payment_pivot.index) > 1

\* The columns _validate_and_prepare converts.
CoercedColumns == {"order_purchase_timestamp", "total_item_value", "review_score"}

\* The input records whose timestamp parses, in file order.
ParseableRecords ==
  SelectSeq(file.rows, LAMBDA r : to_datetime(r.order_purchase_timestamp) # NaT)

\* Record `out` of the cleaned frame is input record `r` with its timestamp
\* parsed and each numeric field parsed, or null (never zero) when the field
\* does not parse; the other columns are as in the file.
CleanedFrom(out, r) ==
  /\ DOMAIN out = DOMAIN r
  /\ out.order_purchase_timestamp = to_datetime(r.order_purchase_timestamp)
  /\ out.order_purchase_timestamp # NaT
  /\ \A c \in {"total_item_value", "review_score"} :
       /\ out[c] = to_numeric(r[c])
       /\ r[c] \notin ValueTokens => out[c] = NaNf /\ out[c] # << 0 >>
  /\ \A c \in (DOMAIN r) \ CoercedColumns : out[c] = r[c]

\* C11: once load_data has run on a file that has every required column, it
\* returned a frame and displayed no error; the frame holds exactly the input
\* records whose timestamp parses, in order, each kept even when its item
\* value or review score does not parse (that field is null, not zero); and
\* the frame read from the file, which the cleaning was given, still holds the
\* rows as read.
C11_CleaningKeepsParseableRows ==
  (cache.filled /\ file.kind = "table" /\ Lacking = {}) =>
    /\ ~cache.value.isNone
    /\ cache.errors = << >>
    /\ phase # "setup"
    /\ Len(cache.value.rows) = Len(ParseableRecords)
    /\ \A i \in 1..Len(ParseableRecords) :
         CleanedFrom(cache.value.rows[i], ParseableRecords[i])
    /\ csv_df.bound
    /\ csv_df.columns = file.columns
    /\ csv_df.rows = file.rows

\* A file of three records has been cleaned: the one whose timestamp does not
\* parse is gone, the one whose item value does not parse and the one whose
\* review score does not parse are kept with that field null.
C11_Witness ==
  /\ cache.filled
  /\ file.kind = "table"
  /\ Lacking = {}
  /\ Len(file.rows) = 3
  /\ Len(cache.value.rows) = 2
  /\ \E i \in 1..3 : to_datetime(file.rows[i].order_purchase_timestamp) = NaT
  /\ \E i \in 1..2 : /\ cache.value.rows[i].total_item_value = NaNf
                     /\ cache.value.rows[i].review_score # NaNf
  /\ \E i \in 1..2 : /\ cache.value.rows[i].review_score = NaNf
                     /\ cache.value.rows[i].total_item_value # NaNf
  /\ csv_df.rows = file.rows

====
